---- MODULE Spec2Model ----
(***************************************************************************)
(* PawForum: the persistent store (users, channels, messages: src/db.py    *)
(* and the standalone src/streamlit_app.py), the session's identity        *)
(* (src/auth.py) and the composer (src/ui.py, src/streamlit_app.py).       *)
(*                                                                         *)
(* Python strings are tuples of one-character strings, so that strip(),    *)
(* lower(), replace() and the regular expression act on characters.  SQL   *)
(* NULL and Python None are the tuple NULL.  A table with an AUTOINCREMENT *)
(* key is a sequence: a row's id is its index.                             *)
(***************************************************************************)
EXTENDS Integers, Sequences, FiniteSets, TLC

VARIABLES
    users,          \* table users       (db.py:27-36), in id order
    channels,       \* table channels    (db.py:42-45), a set of rows
    messages,       \* table messages    (db.py:51-59), in id order
    now,            \* int(time.time())
    session_state,  \* st.session_state of each browser session
    google_conf,    \* whether st.secrets holds a complete google_oauth section
    listing,        \* what the last list_messages call returned
    last,           \* the last operation: its arguments and its outcome
    calls           \* the db.py call each of two connections is in

vars == <<users, channels, messages, now, session_state, google_conf, listing, last,
          calls>>

----------------------------------------------------------------------------
(* Bounds of the model *)

MaxUsers == 2
MaxCreated == 2
MaxMsgs == 3
MaxTime == 1
NumSessions == 1

(* Program constants *)

MinUsernameLen == 3
MinPasswordLen == 6
MinChannelIdLen == 3

----------------------------------------------------------------------------
(* Strings *)

NULL == <<"NULL">>

Whitespace == {" ", "\t", "\n"}

RECURSIVE lstrip(_)
lstrip(s) ==
    IF s # <<>> /\ Head(s) \in Whitespace THEN lstrip(Tail(s)) ELSE s

RECURSIVE rstrip(_)
rstrip(s) ==
    IF s # <<>> /\ s[Len(s)] \in Whitespace
    THEN rstrip(SubSeq(s, 1, Len(s) - 1))
    ELSE s

\* (x or '').strip()
strip(s) == IF s = NULL THEN <<>> ELSE rstrip(lstrip(s))

UpperCase ==
    <<"A","B","C","D","E","F","G","H","I","J","K","L","M",
      "N","O","P","Q","R","S","T","U","V","W","X","Y","Z">>

LowerCase ==
    <<"a","b","c","d","e","f","g","h","i","j","k","l","m",
      "n","o","p","q","r","s","t","u","v","w","x","y","z">>

Digits == {"0","1","2","3","4","5","6","7","8","9"}

lower_char(c) ==
    IF \E i \in 1..26 : UpperCase[i] = c
    THEN LowerCase[CHOOSE i \in 1..26 : UpperCase[i] = c]
    ELSE c

\* str.lower()
lower(s) == [i \in 1..Len(s) |-> lower_char(s[i])]

\* str.replace(' ', '-')
replace_space_dash(s) == [i \in 1..Len(s) |-> IF s[i] = " " THEN "-" ELSE s[i]]

----------------------------------------------------------------------------
(* Credential hashing: passlib.hash.bcrypt as db.py uses it.  A hash is    *)
(* the scheme's identifier followed by a digest that only the same secret  *)
(* reproduces; the empty string is no bcrypt hash.  The secrets of the      *)
(* model are far shorter than the 72 bytes bcrypt reads.                   *)

BcryptIdent == "$2b$"

bcrypt_hash(password) == <<BcryptIdent>> \o password

\* "True", "False" or the exception passlib raises for a malformed hash.
bcrypt_verify(password, hash) ==
    IF hash = <<>> \/ Head(hash) # BcryptIdent THEN "ValueError"
    ELSE IF Tail(hash) = password THEN "True"
    ELSE "False"

----------------------------------------------------------------------------
(* Table users *)

UserRow(username, password_hash, created_at, google_sub, email, name, avatar_url) ==
    [username |-> username, password_hash |-> password_hash,
     created_at |-> created_at, google_sub |-> google_sub,
     email |-> email, name |-> name, avatar_url |-> avatar_url]

\* username TEXT UNIQUE NOT NULL, google_sub TEXT UNIQUE: what makes
\* INSERT raise sqlite3.IntegrityError.
UsersIntegrityError(table, row) ==
    \/ row.username = NULL
    \/ \E i \in DOMAIN table : table[i].username = row.username
    \/ /\ row.google_sub # NULL
       /\ \E i \in DOMAIN table : table[i].google_sub = row.google_sub

ERR_REQUIRED == "Username and password are required."
ERR_USER_SHORT == "Username must be at least 3 characters."
ERR_PASS_SHORT == "Password must be at least 6 characters."
ERR_USER_EXISTS == "Username already exists."
OK == "None"
NoExc == "-"

\* create_user without the UNIQUE constraint on users.username.
create_user_result_no_unique(table, username0, password0) ==
    LET username == strip(username0)
        password == strip(password0)
    IN  IF username = <<>> \/ password = <<>> THEN ERR_REQUIRED
        ELSE IF Len(username) < MinUsernameLen THEN ERR_USER_SHORT
        ELSE IF Len(password) < MinPasswordLen THEN ERR_PASS_SHORT
        ELSE OK

\* What create_user returns for these arguments on this table.
create_user_result(table, username0, password0) ==
    LET username == strip(username0)
        password == strip(password0)
        row == UserRow(username, bcrypt_hash(password), now, NULL, NULL, NULL, NULL)
    IN  IF username = <<>> \/ password = <<>> THEN ERR_REQUIRED
        ELSE IF Len(username) < MinUsernameLen THEN ERR_USER_SHORT
        ELSE IF Len(password) < MinPasswordLen THEN ERR_PASS_SHORT
        ELSE IF UsersIntegrityError(table, row) THEN ERR_USER_EXISTS
        ELSE OK

\* The table create_user leaves.
create_user_table(table, username0, password0) ==
    IF create_user_result(table, username0, password0) = OK
    THEN Append(table, UserRow(strip(username0), bcrypt_hash(strip(password0)),
                               now, NULL, NULL, NULL, NULL))
    ELSE table

\* What verify_user returns: "True", "False", or the exception it raises.
verify_user(table, username, password) ==
    LET found == {i \in DOMAIN table : table[i].username = username}
    IN  IF found = {} THEN "False"
        ELSE bcrypt_verify(password, table[CHOOSE i \in found : TRUE].password_hash)

\* The first row fetchone() gives for a WHERE over one column.
FirstWhere(table, P(_)) ==
    LET found == {i \in DOMAIN table : P(table[i])}
    IN  IF found = {} THEN 0 ELSE CHOOSE i \in found : \A j \in found : i <= j

\* upsert_google_user: [ret, exc, table].
upsert_google_user_outcome(table, sub, email, name, avatar) ==
    LET HasSub(r) == sub # NULL /\ r.google_sub = sub
        HasEmail(r) == email # NULL /\ r.email = email
        row == FirstWhere(table, HasSub)
        row2 == FirstWhere(table, HasEmail)
        updated == [i \in DOMAIN table |->
                       IF HasEmail(table[i])
                       THEN [table[i] EXCEPT !.google_sub = sub, !.name = name,
                                             !.avatar_url = avatar]
                       ELSE table[i]]
        new == UserRow(email, <<>>, now, sub, email, name, avatar)
    IN  IF row # 0
        THEN [ret |-> table[row].username, exc |-> NoExc, table |-> table]
        ELSE IF row2 # 0
        THEN IF sub # NULL /\ Cardinality({i \in DOMAIN table : HasEmail(table[i])}) > 1
             THEN [ret |-> NULL, exc |-> "IntegrityError", table |-> table]
             ELSE [ret |-> table[row2].username, exc |-> NoExc, table |-> updated]
        ELSE IF UsersIntegrityError(table, new)
        THEN [ret |-> NULL, exc |-> "IntegrityError", table |-> table]
        ELSE [ret |-> email, exc |-> NoExc, table |-> Append(table, new)]

----------------------------------------------------------------------------
(* Table channels *)

DEFAULT_CHANNELS ==
    { [id |-> <<"g","e","n","e","r","a","l">>,
       name |-> <<"G","e","n","e","r","a","l">>],
      [id |-> <<"c","u","r","i","o","s","i","t","i","e","s">>,
       name |-> <<"C","u","r","i","o","s","i","t","i","e","s">>],
      [id |-> <<"t","i","p","s","-","a","n","d","-","a","d","v","i","c","e">>,
       name |-> <<"T","i","p","s"," ","&"," ","A","d","v","i","c","e">>],
      [id |-> <<"a","d","o","p","t","i","o","n","s">>,
       name |-> <<"A","d","o","p","t","i","o","n","s">>],
      [id |-> <<"s","u","p","p","o","r","t","-","c","o","r","n","e","r">>,
       name |-> <<"S","u","p","p","o","r","t"," ","C","o","r","n","e","r">>] }

\* An init_db that empties the table and inserts the defaults on every run.
seed_channels_reset(table) == DEFAULT_CHANNELS

\* init_db's seeding: SELECT COUNT(*) FROM channels; if 0, the defaults.
seed_channels(table) == IF Cardinality(table) = 0 THEN DEFAULT_CHANNELS ELSE table

ChannelIds(table) == {c.id : c \in table}

\* channel_id.strip().lower().replace(' ', '-') without the lower().
normalize_channel_id_keep_case(channel_id) == replace_space_dash(strip(channel_id))

\* channel_id.strip().lower().replace(' ', '-')
normalize_channel_id(channel_id) == replace_space_dash(lower(strip(channel_id)))

IdChars == {LowerCase[i] : i \in 1..26} \cup Digits \cup {"-"}

\* re.match(r'^[a-z0-9\-]{3,}$', s): $ also matches before a final newline.
matches_channel_id(s) ==
    LET body == IF s # <<>> /\ s[Len(s)] = "\n" THEN SubSeq(s, 1, Len(s) - 1) ELSE s
    IN  /\ Len(body) >= MinChannelIdLen
        /\ \A i \in 1..Len(body) : body[i] \in IdChars

ERR_CHANNEL_ID == "Channel id must be 3+ chars, lowercase, digits or dashes."
ERR_CHANNEL_NAME == "Display name is required."
ERR_CHANNEL_EXISTS == "Channel id already exists."
ERR_CHANNEL_REQUIRED == "Channel id and name are required."

\* db.insert_channel on a table whose id is no primary key.
db_insert_channel_result_no_primary_key(table, channel_id0, name0) ==
    LET channel_id == normalize_channel_id(channel_id0)
        name == strip(name0)
    IN  IF ~matches_channel_id(channel_id) THEN ERR_CHANNEL_ID
        ELSE IF name = <<>> THEN ERR_CHANNEL_NAME
        ELSE OK

\* db.insert_channel: what it returns.
db_insert_channel_result(table, channel_id0, name0) ==
    LET channel_id == normalize_channel_id(channel_id0)
        name == strip(name0)
    IN  IF ~matches_channel_id(channel_id) THEN ERR_CHANNEL_ID
        ELSE IF name = <<>> THEN ERR_CHANNEL_NAME
        ELSE IF channel_id \in ChannelIds(table) THEN ERR_CHANNEL_EXISTS
        ELSE OK

\* db.insert_channel: the table it leaves.
db_insert_channel_table(table, channel_id0, name0) ==
    IF db_insert_channel_result(table, channel_id0, name0) = OK
    THEN table \cup {[id |-> normalize_channel_id(channel_id0), name |-> strip(name0)]}
    ELSE table

\* streamlit_app.insert_channel: what it returns.
st_insert_channel_result(table, channel_id0, name0) ==
    LET channel_id == normalize_channel_id(channel_id0)
        name == strip(name0)
    IN  IF channel_id = <<>> \/ name = <<>> THEN ERR_CHANNEL_REQUIRED
        ELSE IF channel_id \in ChannelIds(table) THEN ERR_CHANNEL_EXISTS
        ELSE OK

\* streamlit_app.insert_channel: the table it leaves.
st_insert_channel_table(table, channel_id0, name0) ==
    IF st_insert_channel_result(table, channel_id0, name0) = OK
    THEN table \cup {[id |-> normalize_channel_id(channel_id0), name |-> strip(name0)]}
    ELSE table

----------------------------------------------------------------------------
(* Table messages *)

DefaultLimit == 200

MessageRow(channel_id, user, text, image_path, ts) ==
    [channel_id |-> channel_id, user |-> user, text |-> text,
     image_path |-> image_path, ts |-> ts]

\* add_message: the table it leaves.
add_message(table, channel_id, user, text, image_path) ==
    Append(table, MessageRow(channel_id, user, text, image_path, now))

\* The columns list_messages selects.
Selected(r) == [user |-> r.user, text |-> r.text, image_path |-> r.image_path,
                ts |-> r.ts]

\* WHERE channel_id = ? ORDER BY ts ASC: every order of the channel's rows
\* that ascends in ts; the statement names no second key, and SQL leaves the
\* order of rows with equal keys to the engine.
Orders(table, channel_id) ==
    LET ids == {i \in DOMAIN table : table[i].channel_id = channel_id}
        k == Cardinality(ids)
    IN  {q \in [1..k -> ids] :
            /\ \A a, b \in 1..k : a # b => q[a] # q[b]
            /\ \A a, b \in 1..k : a < b => table[q[a]].ts <= table[q[b]].ts}

\* LIMIT ?: a negative limit is no limit.
Limit(rows, limit) ==
    IF limit < 0 \/ limit >= Len(rows) THEN rows ELSE SubSeq(rows, 1, limit)

\* One result of list_messages for the order q.
list_messages_rows(table, q, limit) ==
    Limit([a \in 1..Len(q) |-> Selected(table[q[a]])], limit)

\* f"{int(time.time())}_{uploaded.name.replace(' ', '_')}" under UPLOAD_DIR
upload_path(name) ==
    <<"uploads/", ToString(now), "_">>
       \o [i \in 1..Len(name) |-> IF name[i] = " " THEN "_" ELSE name[i]]

----------------------------------------------------------------------------
(* Session state (auth.py) *)

UuidHexLen == 32

\* current_user() as a condition: None and '' are falsy.
Truthy(x) == x # NULL /\ x # <<>>

current_user(s) == session_state[s].user

\* build_google_login_url: with a complete configuration, a fresh state.
build_google_login_url(ss, s, state) ==
    IF google_conf THEN [ss EXCEPT ![s].oauth_state = state] ELSE ss

\* st.query_params.get(key, [None])[0]: None for a missing parameter, else
\* the first character of its value; a present but empty value raises.
first_of_param(v) == IF v = NULL THEN NULL ELSE <<Head(v)>>

\* The value auth.py compares and hands on for a query parameter.
query_value(v) == first_of_param(v)

----------------------------------------------------------------------------
(* The operations' record in `last`: n alternates, so that two calls with  *)
(* the same arguments and the same outcome are two steps.                  *)

(* args is a tuple of strings, ret a string or a one-element tuple naming   *)
(* the value returned, sid the session (0: none) and k an integer argument.*)

Called(op, sid, args, k, ret, exc) ==
    [op |-> op, sid |-> sid, args |-> args, k |-> k, ret |-> ret, exc |-> exc,
     n |-> 1 - last.n]

Sessions == 1..NumSessions

\* The two pages over the one database: the page built from ui.py and
\* auth.py, and the standalone streamlit_app.py.
Apps == {"ui", "standalone"}

\* The two connections of the claims about concurrent calls: get_conn() opens
\* one per call.
Procs == {1, 2}

\* A connection that is in no call.
Idle == [op |-> "idle", pc |-> "idle", args |-> <<>>, seen |-> NULL, ret |-> NULL,
         exc |-> NoExc, overlap |-> FALSE]

Init ==
    /\ users = <<>>
    /\ channels = seed_channels({})
    /\ messages = <<>>
    /\ now = 0
    /\ session_state \in [Sessions ->
                           [app : Apps, user : {NULL}, oauth_state : {NULL},
                            nickname : {NULL}]]
    /\ google_conf \in BOOLEAN
    /\ listing = <<>>
    /\ last = [op |-> "start", sid |-> 0, args |-> <<>>, k |-> 0, ret |-> NULL,
               exc |-> NoExc, n |-> 0]
    /\ calls = [p \in Procs |-> Idle]

----------------------------------------------------------------------------
(* The database file holds the schema and the seeded channels once the page *)
(* has run init_db, which it does before anything else.                    *)

(* db.py called directly: the Credential Store and the Identity Linker *)

create_user(username, password) ==
    /\ create_user_result(users, username, password) = OK => Len(users) < MaxUsers
    /\ users' = create_user_table(users, username, password)
    /\ last' = Called("create_user", 0, <<username, password>>, 0,
                      <<create_user_result(users, username, password)>>, NoExc)
    /\ UNCHANGED <<channels, messages, now, session_state, google_conf, listing, calls>>

VerifyUser(username, password) ==
    LET r == verify_user(users, username, password)
    IN  /\ last' = Called("verify_user", 0, <<username, password>>, 0,
                          IF r = "ValueError" THEN NULL ELSE <<r>>,
                          IF r = "ValueError" THEN r ELSE NoExc)
        /\ UNCHANGED <<users, channels, messages, now, session_state, google_conf,
                       listing, calls>>

upsert_google_user(sub, email, name, avatar) ==
    LET o == upsert_google_user_outcome(users, sub, email, name, avatar)
    IN  /\ Len(o.table) <= MaxUsers
        /\ users' = o.table
        /\ last' = Called("upsert_google_user", 0, <<sub, email, name, avatar>>, 0,
                          o.ret, o.exc)
        /\ UNCHANGED <<channels, messages, now, session_state, google_conf, listing, calls>>

(* Inputs *)

Bob == <<"b","o","b">>
BobPadded == <<" ","b","o","b"," ">>
Mail1 == <<"a","@","x">>
Mail2 == <<"b","@","x">>
Secret == <<"s","e","c","r","e","t">>
SecretPadded == <<" ","s","e","c","r","e","t">>
Wrong == <<"w","r","o","n","g","1">>
Short == <<"s","h","o","r","t">>

Usernames == {Bob, BobPadded, Mail1, <<"a","b">>}
Passwords == {Secret, SecretPadded, Short, <<>>}
VerifyPasswords == {Secret, SecretPadded, Wrong}
Subs == {<<"g","1">>, <<"g","2">>}
Emails == {Mail1, Mail2}
Profiles == {<<NULL, NULL>>, <<<<"A","l">>, <<"p","n","g">>>>}

NextStore ==
    \/ \E u \in Usernames, p \in Passwords : create_user(u, p)
    \/ \E u \in Usernames \cup Emails, p \in VerifyPasswords : VerifyUser(u, p)
    \/ \E g \in Subs, e \in Emails, pr \in Profiles :
          upsert_google_user(g, e, pr[1], pr[2])

InitStore ==
    /\ Init
    /\ google_conf = FALSE
    /\ \A s \in Sessions : session_state[s].app = "ui"

SpecStore == InitStore /\ [][NextStore]_vars

----------------------------------------------------------------------------
(* The Channel Registry: db.py and the standalone streamlit_app.py share    *)
(* the database file DB_PATH.                                               *)

init_db ==
    /\ channels' = seed_channels(channels)
    /\ last' = Called("init_db", 0, <<>>, 0, NULL, NoExc)
    /\ UNCHANGED <<users, messages, now, session_state, google_conf, listing, calls>>

\* streamlit_app.init_db: the same tables but users, and the same seeding.
st_init_db ==
    /\ channels' = seed_channels(channels)
    /\ last' = Called("streamlit_app.init_db", 0, <<>>, 0, NULL, NoExc)
    /\ UNCHANGED <<users, messages, now, session_state, google_conf, listing, calls>>

Created(table) == Cardinality(table \ DEFAULT_CHANNELS)

db_insert_channel(channel_id, name) ==
    /\ db_insert_channel_result(channels, channel_id, name) = OK
          => Created(channels) < MaxCreated
    /\ channels' = db_insert_channel_table(channels, channel_id, name)
    /\ last' = Called("db.insert_channel", 0, <<channel_id, name>>, 0,
                      <<db_insert_channel_result(channels, channel_id, name)>>, NoExc)
    /\ UNCHANGED <<users, messages, now, session_state, google_conf, listing, calls>>

st_insert_channel(channel_id, name) ==
    /\ st_insert_channel_result(channels, channel_id, name) = OK
          => Created(channels) < MaxCreated
    /\ channels' = st_insert_channel_table(channels, channel_id, name)
    /\ last' = Called("streamlit_app.insert_channel", 0, <<channel_id, name>>, 0,
                      <<st_insert_channel_result(channels, channel_id, name)>>, NoExc)
    /\ UNCHANGED <<users, messages, now, session_state, google_conf, listing, calls>>

(* Inputs *)

CatsLifePadded == <<" ","C","a","t","s"," ","L","i","f","e"," ">>
CatsLife == <<"C","a","t","s"," ","L","i","f","e">>
cats_life == <<"c","a","t","s","-","l","i","f","e">>
GeneralUpper == <<"G","E","N","E","R","A","L">>
general == <<"g","e","n","e","r","a","l">>

RawIds == {CatsLifePadded, CatsLife, cats_life, GeneralUpper,
           <<"a","b">>, <<"a"," ","b">>, <<"o","k","!">>, <<" ">>}
RawNames == {CatsLife, <<" ","x"," ">>, <<" ">>, <<>>}

NextChannels ==
    \/ init_db
    \/ \E c \in RawIds, n \in RawNames : db_insert_channel(c, n)
    \/ \E c \in RawIds, n \in RawNames : st_insert_channel(c, n)

SpecChannels == InitStore /\ [][NextChannels]_vars

\* The database file before the page has run for the first time: no table,
\* no row.
InitEmpty ==
    /\ users = <<>>
    /\ channels = {}
    /\ messages = <<>>
    /\ now = 0
    /\ session_state = [s \in Sessions |->
                           [app |-> "ui", user |-> NULL, oauth_state |-> NULL,
                            nickname |-> NULL]]
    /\ google_conf = FALSE
    /\ listing = <<>>
    /\ last = [op |-> "start", sid |-> 0, args |-> <<>>, k |-> 0, ret |-> NULL,
               exc |-> NoExc, n |-> 0]
    /\ calls = [p \in Procs |-> Idle]

\* CREATE TABLE IF NOT EXISTS is init_db's: the tables exist once an init_db
\* has run, which the page does before it shows the channel form
\* (streamlit_app.py:264).
TablesCreated == last.op # "start"

SeedIds == {CatsLife, cats_life, GeneralUpper, <<"a","b">>}
SeedNames == {CatsLife, <<" ","x"," ">>, <<>>}

NextSeeding ==
    \/ init_db
    \/ st_init_db
    \/ \E c \in SeedIds, n \in SeedNames : TablesCreated /\ db_insert_channel(c, n)
    \/ \E c \in SeedIds, n \in SeedNames : TablesCreated /\ st_insert_channel(c, n)

SpecSeeding == InitEmpty /\ [][NextSeeding]_vars

----------------------------------------------------------------------------
(* The page built from auth.py and ui.py.  One action is one run of the     *)
(* script for one interaction, with the rerun it asks for.                  *)

Tokens ==
    { [i \in 1..UuidHexLen |-> "a"],
      [i \in 1..UuidHexLen |-> IF i = 1 THEN "a" ELSE "f"] }

\* A run that only renders: auth_ui shows the forms to an anonymous session
\* and issues the state of the login link.
auth_ui_render(s, state) ==
    /\ session_state[s].app = "ui"
    /\ ~Truthy(current_user(s))
    /\ session_state' = build_google_login_url(session_state, s, state)
    /\ last' = Called("render", s, <<>>, 0, NULL, NoExc)
    /\ UNCHANGED <<users, channels, messages, now, google_conf, listing, calls>>

\* "Log in" that takes any answer of verify_user for a yes.
login_local_unchecked(s, u, p, state) ==
    /\ session_state[s].app = "ui"
    /\ ~Truthy(current_user(s))
    /\ session_state' = [session_state EXCEPT ![s].user = u]
    /\ last' = Called("login_local", s, <<u, p>>, 0, <<"True">>, NoExc)
    /\ UNCHANGED <<users, channels, messages, now, google_conf, listing, calls>>

\* "Log in": on True the user is set and the script reruns (no form, no new
\* state); on False the run goes on to the login link; an exception ends it.
login_local(s, u, p, state) ==
    LET r == verify_user(users, u, p)
    IN  /\ session_state[s].app = "ui"
        /\ ~Truthy(current_user(s))
        /\ session_state' =
              IF r = "True" THEN [session_state EXCEPT ![s].user = u]
              ELSE IF r = "False" THEN build_google_login_url(session_state, s, state)
              ELSE session_state
        /\ last' = Called("login_local", s, <<u, p>>, 0,
                          IF r = "ValueError" THEN NULL ELSE <<r>>,
                          IF r = "ValueError" THEN r ELSE NoExc)
        /\ UNCHANGED <<users, channels, messages, now, google_conf, listing, calls>>

\* "Create account"
register(s, nu, np, state) ==
    /\ session_state[s].app = "ui"
    /\ ~Truthy(current_user(s))
    /\ create_user_result(users, nu, np) = OK => Len(users) < MaxUsers
    /\ users' = create_user_table(users, nu, np)
    /\ session_state' = build_google_login_url(session_state, s, state)
    /\ last' = Called("register", s, <<nu, np>>, 0,
                      <<create_user_result(users, nu, np)>>, NoExc)
    /\ UNCHANGED <<channels, messages, now, google_conf, listing, calls>>

\* "Log out": the user is popped and the script reruns for an anonymous
\* session.
logout(s, state) ==
    /\ session_state[s].app = "ui"
    /\ Truthy(current_user(s))
    /\ session_state' =
          build_google_login_url([session_state EXCEPT ![s].user = NULL], s, state)
    /\ last' = Called("logout", s, <<>>, 0, NULL, NoExc)
    /\ UNCHANGED <<users, channels, messages, now, google_conf, listing, calls>>

\* What the identity provider answers once the state is accepted.
Upstream ==
    {[kind |-> "token_error"], [kind |-> "userinfo_error"]}
       \cup {[kind |-> "profile", sub |-> <<"g","1">>, email |-> e,
              name |-> NULL, picture |-> NULL] : e \in {<<"a","@","x">>}}

\* handle_google_callback without the comparison of the state parameter with
\* the session's oauth_state.
handle_google_callback_outcome_no_state_check(s, code0, state0, up) ==
    LET same == [user |-> current_user(s), table |-> users]
        code == query_value(code0)
        state == query_value(state0)
        o == upsert_google_user_outcome(users, up.sub, up.email, up.name, up.picture)
    IN  IF ~google_conf THEN same @@ [ret |-> <<"None">>, exc |-> NoExc]
        ELSE IF code0 = <<>> \/ state0 = <<>>
        THEN same @@ [ret |-> NULL, exc |-> "IndexError"]
        ELSE IF ~Truthy(code) \/ ~Truthy(state)
        THEN same @@ [ret |-> <<"None">>, exc |-> NoExc]
        ELSE IF up.kind = "token_error"
        THEN same @@ [ret |-> NULL, exc |-> "OAuthError"]
        ELSE IF up.kind = "userinfo_error"
        THEN same @@ [ret |-> <<"None">>, exc |-> NoExc]
        ELSE IF o.exc # NoExc
        THEN same @@ [ret |-> NULL, exc |-> o.exc]
        ELSE [user |-> o.ret, table |-> o.table, ret |-> <<"info">>, exc |-> NoExc]

\* handle_google_callback: [user, table, ret, exc] for the query parameters
\* code and state and the provider's answer up.
handle_google_callback_outcome(s, code0, state0, up) ==
    LET same == [user |-> current_user(s), table |-> users]
        code == query_value(code0)
        state == query_value(state0)
        o == upsert_google_user_outcome(users, up.sub, up.email, up.name, up.picture)
    IN  IF ~google_conf THEN same @@ [ret |-> <<"None">>, exc |-> NoExc]
        ELSE IF code0 = <<>> \/ state0 = <<>>
        THEN same @@ [ret |-> NULL, exc |-> "IndexError"]
        ELSE IF ~Truthy(code) \/ ~Truthy(state)
        THEN same @@ [ret |-> <<"None">>, exc |-> NoExc]
        ELSE IF state # session_state[s].oauth_state
        THEN same @@ [ret |-> <<"None">>, exc |-> NoExc]
        ELSE IF up.kind = "token_error"
        THEN same @@ [ret |-> NULL, exc |-> "OAuthError"]
        ELSE IF up.kind = "userinfo_error"
        THEN same @@ [ret |-> <<"None">>, exc |-> NoExc]
        ELSE IF o.exc # NoExc
        THEN same @@ [ret |-> NULL, exc |-> o.exc]
        ELSE [user |-> o.ret, table |-> o.table, ret |-> <<"info">>, exc |-> NoExc]

handle_google_callback(s, code0, state0) ==
    \E up \in Upstream :
       LET o == handle_google_callback_outcome(s, code0, state0, up)
       IN  /\ session_state[s].app = "ui"
           /\ Len(o.table) <= MaxUsers
           /\ users' = o.table
           /\ session_state' = [session_state EXCEPT ![s].user = o.user]
           /\ last' = Called("handle_google_callback", s, <<code0, state0>>, 0,
                             o.ret, o.exc)
           /\ UNCHANGED <<channels, messages, now, google_conf, listing, calls>>

\* ui._handle_send, the Send button's on_click, with the username the page
\* was rendered for, and the render that follows it.
handle_send(s, active_channel, msg_input, uploaded, state) ==
    LET username == current_user(s)
        text_val == strip(msg_input)
        image_path == IF uploaded = NULL THEN NULL ELSE upload_path(uploaded)
        r == IF ~Truthy(username) THEN "You must be logged in to send messages."
             ELSE IF text_val = <<>> /\ image_path = NULL
             THEN "Write a message or attach an image."
             ELSE OK
    IN  /\ session_state[s].app = "ui"
        /\ r = OK => Len(messages) < MaxMsgs
        /\ messages' = IF r = OK
                       THEN add_message(messages, active_channel, username, text_val,
                                        image_path)
                       ELSE messages
        /\ session_state' = IF Truthy(username) THEN session_state
                            ELSE build_google_login_url(session_state, s, state)
        /\ last' = Called("_handle_send", s, <<active_channel, msg_input, uploaded>>, 0,
                          <<r>>, NoExc)
        /\ UNCHANGED <<users, channels, now, google_conf, listing, calls>>

----------------------------------------------------------------------------
(* The standalone page streamlit_app.py: a nickname, no login *)

st_composer_ui(s, nickname, active_channel, text, uploaded) ==
    LET image_path == IF uploaded = NULL THEN NULL ELSE upload_path(uploaded)
        text_val == strip(text)
        author == IF Truthy(nickname) THEN nickname ELSE <<"a","n","o","n">>
        r == IF text_val = <<>> /\ image_path = NULL
             THEN "Write a message or attach an image."
             ELSE OK
    IN  /\ session_state[s].app = "standalone"
        /\ r = OK => Len(messages) < MaxMsgs
        /\ messages' = IF r = OK
                       THEN add_message(messages, active_channel, author, text_val,
                                        image_path)
                       ELSE messages
        /\ session_state' = [session_state EXCEPT ![s].nickname = nickname]
        /\ last' = Called("composer_ui", s, <<active_channel, text, uploaded>>, 0,
                          <<r>>, NoExc)
        /\ UNCHANGED <<users, channels, now, google_conf, listing, calls>>

----------------------------------------------------------------------------
(* The Message Log called directly *)

Tick ==
    /\ now < MaxTime
    /\ now' = now + 1
    /\ last' = Called("tick", 0, <<>>, 0, NULL, NoExc)
    /\ UNCHANGED <<users, channels, messages, session_state, google_conf, listing, calls>>

AddMessage(channel_id, user, text, image_path) ==
    /\ Len(messages) < MaxMsgs
    /\ messages' = add_message(messages, channel_id, user, text, image_path)
    /\ last' = Called("add_message", 0, <<channel_id, user, text, image_path>>, 0,
                      NULL, NoExc)
    /\ UNCHANGED <<users, channels, now, session_state, google_conf, listing, calls>>

list_messages(channel_id, limit) ==
    \E q \in Orders(messages, channel_id) :
       /\ listing' = list_messages_rows(messages, q, limit)
       /\ last' = Called("list_messages", 0, <<channel_id>>, limit, NULL, NoExc)
       /\ UNCHANGED <<users, channels, messages, now, session_state, google_conf, calls>>

(* Inputs *)

Hi == <<"h","i">>
Yo == <<"y","o">>
Blank == <<" ">>
Pic == <<"a"," ","b",".","p","n","g">>
Guest == <<"g","u","e","s","t">>
adoptions == <<"a","d","o","p","t","i","o","n","s">>

\* The channel the selectbox offers.
Active == {general} \cap ChannelIds(channels)

NextChat ==
    \/ \E s \in Sessions, t \in Tokens : register(s, Bob, Secret, t)
    \/ \E s \in Sessions, t \in Tokens : login_local(s, Bob, Secret, t)
    \/ \E s \in Sessions, t \in Tokens : logout(s, t)
    \/ \E s \in Sessions, c \in Active, m \in {Hi, Blank}, f \in {NULL, Pic},
          t \in Tokens : handle_send(s, c, m, f, t)
    \/ \E s \in Sessions, k \in {Guest, Bob, <<>>}, c \in Active, m \in {Hi, Blank},
          f \in {NULL, Pic} : st_composer_ui(s, k, c, m, f)

InitChat == Init /\ google_conf = TRUE

SpecChat == InitChat /\ [][NextChat]_vars

\* Only the page built from ui.py posts.
NextChatUi ==
    \/ \E s \in Sessions, t \in Tokens : register(s, Bob, Secret, t)
    \/ \E s \in Sessions, t \in Tokens : login_local(s, Bob, Secret, t)
    \/ \E s \in Sessions, t \in Tokens : logout(s, t)
    \/ \E s \in Sessions, c \in Active, m \in {Hi, Blank}, f \in {NULL, Pic},
          t \in Tokens : handle_send(s, c, m, f, t)

SpecChatUi == InitChat /\ [][NextChatUi]_vars

Limits == {1, 2, DefaultLimit}

NextLog ==
    \/ Tick
    \/ \E c \in {general, adoptions} \cap ChannelIds(channels), m \in {Hi, Yo} :
          AddMessage(c, Bob, m, NULL)
    \/ \E c \in {general, adoptions}, n \in Limits : list_messages(c, n)

SpecLog == InitStore /\ [][NextLog]_vars

LoginNames == {Bob, BobPadded, Mail1}
LoginPasswords == {Secret, Wrong}
Codes == {NULL, <<>>, <<"c","d">>}
States == {NULL, <<>>, <<"a">>} \cup Tokens

NextSession ==
    \/ \E s \in Sessions, t \in Tokens : auth_ui_render(s, t)
    \/ \E s \in Sessions, u \in {Bob, BobPadded}, p \in {Secret, Short}, t \in Tokens :
          register(s, u, p, t)
    \/ \E s \in Sessions, u \in LoginNames, p \in LoginPasswords, t \in Tokens :
          login_local(s, u, p, t)
    \/ \E s \in Sessions, t \in Tokens : logout(s, t)
    \/ \E s \in Sessions, c \in Codes, st \in States : handle_google_callback(s, c, st)
    \/ upsert_google_user(<<"g","1">>, Mail1, NULL, NULL)

InitSession == Init /\ \A s \in Sessions : session_state[s].app = "ui"

SpecSession == InitSession /\ [][NextSession]_vars

----------------------------------------------------------------------------
(* Two connections in db.py at once.  Each call opens its own connection    *)
(* (get_conn), and the calls share nothing but the database file.  A step   *)
(* is one statement: a SELECT reads what is committed; an INSERT or UPDATE  *)
(* is one step with its commit, because SQLite gives the writing connection *)
(* the file's write lock from the statement to the commit, makes a second   *)
(* writer wait for it, and shows no reader the rows before the commit.  The *)
(* code before the first statement reads only the call's arguments and is   *)
(* part of the step of that statement.                                      *)

InFlight(c) == c.pc \notin {"idle", "done"}

\* The call enters; overlap records that the other connection is in a call.
begin(p, op, pc, args) ==
    /\ calls[p] = Idle
    /\ calls' = [q \in Procs |->
                    IF q = p
                    THEN [op |-> op, pc |-> pc, args |-> args, seen |-> NULL,
                          ret |-> NULL, exc |-> NoExc,
                          overlap |-> \E o \in Procs \ {p} : InFlight(calls[o])]
                    ELSE [calls[q] EXCEPT !.overlap = @ \/ InFlight(calls[q])]]
    /\ UNCHANGED <<users, channels, messages, now, session_state, google_conf,
                   listing, last>>

Returned(c, ret, exc) == [c EXCEPT !.pc = "done", !.ret = ret, !.exc = exc]

\* create_user: the checks, the INSERT and the commit, or the handler of
\* sqlite3.IntegrityError.
create_user_insert(p) ==
    LET c == calls[p]
        r == create_user_result(users, c.args[1], c.args[2])
    IN  /\ c.op = "create_user" /\ c.pc = "insert"
        /\ r = OK => Len(users) < MaxUsers
        /\ users' = create_user_table(users, c.args[1], c.args[2])
        /\ calls' = [calls EXCEPT ![p] = Returned(c, <<r>>, NoExc)]
        /\ UNCHANGED <<channels, messages, now, session_state, google_conf, listing,
                       last>>

\* db.insert_channel: the checks, the INSERT and the commit, or the handler
\* of sqlite3.IntegrityError.
insert_channel_insert(p) ==
    LET c == calls[p]
        r == db_insert_channel_result(channels, c.args[1], c.args[2])
    IN  /\ c.op = "insert_channel" /\ c.pc = "insert"
        /\ r = OK => Created(channels) < MaxCreated
        /\ channels' = db_insert_channel_table(channels, c.args[1], c.args[2])
        /\ calls' = [calls EXCEPT ![p] = Returned(c, <<r>>, NoExc)]
        /\ UNCHANGED <<users, messages, now, session_state, google_conf, listing,
                       last>>

\* upsert_google_user, first SELECT: a row with this google_sub is returned.
upsert_select_sub(p) ==
    LET c == calls[p]
        HasSub(r) == c.args[1] # NULL /\ r.google_sub = c.args[1]
        row == FirstWhere(users, HasSub)
    IN  /\ c.op = "upsert_google_user" /\ c.pc = "select_sub"
        /\ calls' = [calls EXCEPT ![p] =
                        IF row # 0 THEN Returned(c, users[row].username, NoExc)
                        ELSE [c EXCEPT !.pc = "select_email"]]
        /\ UNCHANGED <<users, channels, messages, now, session_state, google_conf,
                       listing, last>>

\* upsert_google_user, second SELECT: row2, kept for the return value.
upsert_select_email(p) ==
    LET c == calls[p]
        HasEmail(r) == c.args[2] # NULL /\ r.email = c.args[2]
        row2 == FirstWhere(users, HasEmail)
    IN  /\ c.op = "upsert_google_user" /\ c.pc = "select_email"
        /\ calls' = [calls EXCEPT ![p] =
                        IF row2 # 0
                        THEN [c EXCEPT !.pc = "update", !.seen = users[row2].username]
                        ELSE [c EXCEPT !.pc = "insert"]]
        /\ UNCHANGED <<users, channels, messages, now, session_state, google_conf,
                       listing, last>>

\* google_sub TEXT UNIQUE
UniqueSubs(table) ==
    \A i, j \in DOMAIN table :
       (i # j /\ table[i].google_sub # NULL) => table[i].google_sub # table[j].google_sub

\* UPDATE users SET google_sub = ?, name = ?, avatar_url = ? WHERE email = ?
update_by_email(table, sub, email, name, avatar) ==
    [i \in DOMAIN table |->
        IF email # NULL /\ table[i].email = email
        THEN [table[i] EXCEPT !.google_sub = sub, !.name = name, !.avatar_url = avatar]
        ELSE table[i]]

\* upsert_google_user with row2: the UPDATE and the commit; an
\* sqlite3.IntegrityError leaves the function and rolls back.
upsert_update(p) ==
    LET c == calls[p]
        updated == update_by_email(users, c.args[1], c.args[2], c.args[3], c.args[4])
    IN  /\ c.op = "upsert_google_user" /\ c.pc = "update"
        /\ users' = IF UniqueSubs(updated) THEN updated ELSE users
        /\ calls' = [calls EXCEPT ![p] =
                        IF UniqueSubs(updated) THEN Returned(c, c.seen, NoExc)
                        ELSE Returned(c, NULL, "IntegrityError")]
        /\ UNCHANGED <<channels, messages, now, session_state, google_conf, listing,
                       last>>

\* upsert_google_user without row and row2: the INSERT and the commit; an
\* sqlite3.IntegrityError leaves the function and rolls back.
upsert_insert(p) ==
    LET c == calls[p]
        new == UserRow(c.args[2], <<>>, now, c.args[1], c.args[2], c.args[3], c.args[4])
    IN  /\ c.op = "upsert_google_user" /\ c.pc = "insert"
        /\ ~UsersIntegrityError(users, new) => Len(users) < MaxUsers
        /\ users' = IF UsersIntegrityError(users, new) THEN users
                     ELSE Append(users, new)
        /\ calls' = [calls EXCEPT ![p] =
                        IF UsersIntegrityError(users, new)
                        THEN Returned(c, NULL, "IntegrityError")
                        ELSE Returned(c, c.args[2], NoExc)]
        /\ UNCHANGED <<channels, messages, now, session_state, google_conf, listing,
                       last>>

(* Inputs *)

RaceUsers == {<<Bob, Secret>>, <<BobPadded, Wrong>>, <<Bob, Short>>}
RaceChannels == {<<CatsLife, CatsLife>>, <<cats_life, <<" ","x"," ">>>>,
                 <<CatsLifePadded, <<>>>>, <<GeneralUpper, CatsLife>>}
RaceLogins == {<<<<"g","1">>, Mail1, NULL, NULL>>,
               <<<<"g","2">>, Mail1, <<"A","l">>, <<"p","n","g">>>>}

NextRace ==
    \/ \E p \in Procs, a \in RaceUsers : begin(p, "create_user", "insert", a)
    \/ \E p \in Procs, a \in RaceChannels : begin(p, "insert_channel", "insert", a)
    \/ \E p \in Procs, a \in RaceLogins :
          begin(p, "upsert_google_user", "select_sub", a)
    \/ \E p \in Procs : create_user_insert(p)
    \/ \E p \in Procs : insert_channel_insert(p)
    \/ \E p \in Procs : upsert_select_sub(p)
    \/ \E p \in Procs : upsert_select_email(p)
    \/ \E p \in Procs : upsert_update(p)
    \/ \E p \in Procs : upsert_insert(p)

SpecRace == InitStore /\ [][NextRace]_vars

----------------------------------------------------------------------------
(* Claims about the Credential Store and the Identity Linker (SpecStore) *)

StepOf(op) == last'.n # last.n /\ last'.op = op

Present(table, username) == \E i \in DOMAIN table : table[i].username = username

UniqueUsernames ==
    \A i, j \in DOMAIN users : i # j => users[i].username # users[j].username

PassesValidation(username0, password0) ==
    /\ Len(strip(username0)) >= MinUsernameLen
    /\ Len(strip(password0)) >= MinPasswordLen

\* C1, as stated: every create_user call whose trimmed username is already
\* in the table returns "Username already exists." and leaves the table as
\* it was, and no two rows ever share a username.
C1_AsStated ==
    [][ /\ (StepOf("create_user") /\ Present(users, strip(last'.args[1])))
            => (last'.ret = <<ERR_USER_EXISTS>> /\ users' = users)
        /\ UniqueUsernames' ]_vars

\* C1, amended: a create_user call that passes validation (trimmed username
\* of 3 or more characters, trimmed password of 6 or more) and whose trimmed
\* username is already in the table returns "Username already exists."; every
\* create_user call whose trimmed username is already in the table returns an
\* error and leaves the table as it was; no two rows ever share a username.
C1_Amended ==
    [][ /\ (StepOf("create_user") /\ Present(users, strip(last'.args[1])))
            => /\ last'.ret # <<OK>>
               /\ users' = users
               /\ PassesValidation(last'.args[1], last'.args[2])
                    => last'.ret = <<ERR_USER_EXISTS>>
        /\ UniqueUsernames' ]_vars

\* C1 happens: create_user is refused as a conflict with the username that
\* upsert_google_user gave a row, in a table that also holds a row that
\* create_user made.
C1_Witness ==
    /\ last.op = "create_user"
    /\ last.ret = <<ERR_USER_EXISTS>>
    /\ \E i \in DOMAIN users : /\ users[i].username = strip(last.args[1])
                                /\ users[i].google_sub # NULL
    /\ \E i \in DOMAIN users : users[i].password_hash # <<>>

\* C2: once create_user(u, p) has succeeded, verify_user(u, p) with the same
\* two arguments is true and verify_user(u, p') is false for every other p'.
C2_RoundTrip ==
    [][ (StepOf("create_user") /\ last'.ret = <<OK>>)
           => /\ verify_user(users', last'.args[1], last'.args[2]) = "True"
              /\ \A p \in (Passwords \cup VerifyPasswords) \ {last'.args[2]} :
                    verify_user(users', last'.args[1], p) = "False" ]_vars

\* C3: verify_user never raises; it is false for an unknown username and
\* false for a row that carries the empty password hash.
C3_VerifyTotal ==
    last.op = "verify_user"
       => /\ last.exc = NoExc
          /\ last.ret \in {<<"True">>, <<"False">>}
          /\ ~Present(users, last.args[1]) => last.ret = <<"False">>
          /\ (\E i \in DOMAIN users : /\ users[i].username = last.args[1]
                                      /\ users[i].password_hash = <<>>)
                => last.ret = <<"False">>

\* C4: two upsert_google_user calls in a row with the same arguments return
\* the same username, the second changes no row, and exactly one row carries
\* the subject id.
C4_Idempotent ==
    [][ (last.op = "upsert_google_user" /\ StepOf("upsert_google_user")
         /\ last'.args = last.args)
           => /\ last.exc = NoExc /\ last'.exc = NoExc
              /\ last'.ret = last.ret
              /\ users' = users
              /\ Cardinality({i \in DOMAIN users' :
                                 users'[i].google_sub = last'.args[1]}) = 1 ]_vars

\* A row that create_user made carries a bcrypt hash.
IsLocal(r) == r.password_hash # <<>>

\* C5: upsert_google_user with a subject id no row carries and an email that
\* matches a row create_user made attaches subject id, name and avatar to
\* that row, returns its username, keeps its hash and adds no row.
C5_Linking ==
    [][ \A i \in DOMAIN users :
          (/\ StepOf("upsert_google_user")
           /\ \A j \in DOMAIN users : users[j].google_sub # last'.args[1]
           /\ IsLocal(users[i])
           /\ (users[i].email = last'.args[2] \/ users[i].username = last'.args[2]))
             => /\ last'.exc = NoExc
                /\ last'.ret = users[i].username
                /\ Len(users') = Len(users)
                /\ users'[i].google_sub = last'.args[1]
                /\ users'[i].name = last'.args[3]
                /\ users'[i].avatar_url = last'.args[4]
                /\ users'[i].password_hash = users[i].password_hash ]_vars

\* C14: every upsert_google_user call with a google_sub that is not empty
\* and that no row carries, and an email that is not empty and is no row's
\* email, returns the email without raising and adds one row, whose username
\* is the email; also when the email is the username of a row that
\* create_user made.
C14_NeverFails ==
    [][ (/\ StepOf("upsert_google_user")
         /\ Truthy(last'.args[1]) /\ Truthy(last'.args[2])
         /\ \A i \in DOMAIN users : /\ users[i].google_sub # last'.args[1]
                                     /\ users[i].email # last'.args[2])
           => /\ last'.exc = NoExc
              /\ last'.ret = last'.args[2]
              /\ Len(users') = Len(users) + 1
              /\ SubSeq(users', 1, Len(users)) = users
              /\ users'[Len(users')].username = last'.args[2]
              /\ users'[Len(users')].google_sub = last'.args[1] ]_vars

\* C17: a row that carries a google_sub keeps it, and its username, through
\* every later create_user and upsert_google_user call; an upsert_google_user
\* call with a google_sub that a row carries returns that row's username; no
\* two rows ever carry the same google_sub.
C17_StableBinding ==
    [][ /\ \A i \in DOMAIN users :
              users[i].google_sub # NULL
                 => /\ i \in DOMAIN users'
                    /\ users'[i].google_sub = users[i].google_sub
                    /\ users'[i].username = users[i].username
                    /\ (StepOf("upsert_google_user")
                        /\ last'.args[1] = users[i].google_sub)
                          => (last'.exc = NoExc /\ last'.ret = users[i].username)
        /\ UniqueSubs(users') ]_vars

----------------------------------------------------------------------------
(* Claims about the Channel Registry (SpecChannels) *)

\* The identifier each raw id of RawIds stands for, spelt out.
ExpectedId(raw) ==
    CASE raw \in {CatsLifePadded, CatsLife, cats_life} -> cats_life
      [] raw = GeneralUpper -> general
      [] raw = <<"a"," ","b">> -> <<"a","-","b">>
      [] raw = <<" ">> -> <<>>
      [] OTHER -> raw

ValidChannelCall(raw, name0) ==
    /\ Len(ExpectedId(raw)) >= MinChannelIdLen
    /\ \A i \in 1..Len(ExpectedId(raw)) : ExpectedId(raw)[i] \in IdChars
    /\ strip(name0) # <<>>

\* C6, as stated: db.insert_channel stores the trimmed, lowercased, dashed
\* id (" Cats Life " is stored as cats-life), and every call whose raw id
\* normalizes to an id of the registry returns "Channel id already exists."
\* and leaves the channel set, display names included, as it was.
C6_AsStated ==
    [][ StepOf("db.insert_channel")
          => /\ last'.ret = <<OK>>
                  => /\ ExpectedId(last'.args[1]) \notin ChannelIds(channels)
                     /\ channels' = channels \cup
                           {[id |-> ExpectedId(last'.args[1]),
                             name |-> strip(last'.args[2])]}
             /\ ExpectedId(last'.args[1]) \in ChannelIds(channels)
                  => (last'.ret = <<ERR_CHANNEL_EXISTS>> /\ channels' = channels)
      ]_vars

\* C6, amended: db.insert_channel stores the trimmed, lowercased, dashed id
\* (" Cats Life " is stored as cats-life); every call whose raw id normalizes
\* to an id of the registry returns an error and leaves the channel set,
\* display names included, as it was; the error is "Channel id already
\* exists." when the call passes validation (the normalized id is 3 or more
\* of a-z, 0-9, dash and the display name is not empty after trimming).
C6_Amended ==
    [][ StepOf("db.insert_channel")
          => /\ last'.ret = <<OK>>
                  => /\ ExpectedId(last'.args[1]) \notin ChannelIds(channels)
                     /\ channels' = channels \cup
                           {[id |-> ExpectedId(last'.args[1]),
                             name |-> strip(last'.args[2])]}
             /\ ExpectedId(last'.args[1]) \in ChannelIds(channels)
                  => /\ last'.ret # <<OK>>
                     /\ channels' = channels
                     /\ ValidChannelCall(last'.args[1], last'.args[2])
                          => last'.ret = <<ERR_CHANNEL_EXISTS>>
             /\ (ValidChannelCall(last'.args[1], last'.args[2])
                 /\ ExpectedId(last'.args[1]) \notin ChannelIds(channels))
                  => last'.ret = <<OK>>
      ]_vars

\* C6 happens: "Cats Life" is refused as a conflict with the channel
\* cats-life, which keeps the display name it was created with, and a
\* default id in capitals has been refused too (the registry is unchanged).
C6_Witness ==
    /\ last.op = "db.insert_channel"
    /\ last.args[1] = CatsLife
    /\ last.ret = <<ERR_CHANNEL_EXISTS>>
    /\ \E c \in channels : c.id = cats_life /\ c.name # strip(last.args[2])
    /\ DEFAULT_CHANNELS \subseteq channels

\* C7: both insert_channel functions refuse, with a validation error and no
\* change, a normalized id that is not 3 or more of a-z, 0-9, dash, and a
\* display name that is empty after trimming; every id of the registry
\* matches the pattern.
C7_Validation ==
    [][ /\ \A op \in {"db.insert_channel", "streamlit_app.insert_channel"} :
              (StepOf(op) /\ ~ValidChannelCall(last'.args[1], last'.args[2]))
                 => /\ last'.ret \in {<<ERR_CHANNEL_ID>>, <<ERR_CHANNEL_NAME>>,
                                      <<ERR_CHANNEL_REQUIRED>>}
                    /\ channels' = channels
        /\ \A c \in channels' : matches_channel_id(c.id) ]_vars

----------------------------------------------------------------------------
(* Claims about seeding (SpecSeeding) *)

\* C15: init_db (db.py's and streamlit_app.py's) inserts the five default
\* channels into an empty channel table and leaves a table with any channel,
\* default or created, as it is; no id ever has two rows; no step removes a
\* channel or changes its name.
C15_SeedingGate ==
    [][ /\ (StepOf("init_db") \/ StepOf("streamlit_app.init_db"))
            => /\ channels = {}
                    => (channels' = DEFAULT_CHANNELS /\ Cardinality(channels') = 5)
               /\ channels # {} => channels' = channels
        /\ channels \subseteq channels'
        /\ \A c1, c2 \in channels' : c1.id = c2.id => c1 = c2 ]_vars

\* C15 happens: init_db has run on a table that holds the five defaults and
\* two created channels, one of them made by the standalone page with an id
\* db.insert_channel refuses.
C15_Witness ==
    /\ last.op \in {"init_db", "streamlit_app.init_db"}
    /\ DEFAULT_CHANNELS \subseteq channels
    /\ cats_life \in ChannelIds(channels)
    /\ <<"a","b">> \in ChannelIds(channels)
    /\ Cardinality(channels) = 7

----------------------------------------------------------------------------
(* Claims about the write gate (SpecChat) *)

\* C8: every row of the message log is appended by a session that has a
\* current username at that moment, with that username as its author.
C8_WriteGate ==
    [][ messages' # messages
          => /\ Len(messages') = Len(messages) + 1
             /\ last'.sid \in Sessions
             /\ Truthy(session_state[last'.sid].user)
             /\ messages'[Len(messages')].user = session_state[last'.sid].user
      ]_vars

----------------------------------------------------------------------------
(* Claims about the Message Log (SpecLog) *)

\* The channel's rows in creation order: ascending timestamp, and ascending
\* id where the timestamps are equal.
RECURSIVE CreationOrder(_, _, _)
CreationOrder(table, channel_id, done) ==
    LET left == {i \in DOMAIN table : table[i].channel_id = channel_id} \ done
        first == CHOOSE i \in left :
                    \A j \in left : \/ table[i].ts < table[j].ts
                                    \/ (table[i].ts = table[j].ts /\ i <= j)
    IN  IF left = {} THEN <<>>
        ELSE <<Selected(table[first])>>
                \o CreationOrder(table, channel_id, done \cup {first})

Min(a, b) == IF a <= b THEN a ELSE b

\* C9: list_messages(c, n) returns the first min(n, k) of c's k messages in
\* creation order, and nothing of another channel.
C9_CreationOrder ==
    last.op = "list_messages"
       => LET all == CreationOrder(messages, last.args[1], {})
          IN  listing = SubSeq(all, 1, Min(last.k, Len(all)))

----------------------------------------------------------------------------
(* Claims about the Identity Context (SpecSession) *)

\* C10: a session starts with no current username; login_local(u, p) sets it
\* to u exactly when verify_user(u, p) is true and otherwise leaves it; after
\* create_user has stored bob with the hash of his password, login_local with
\* that pair sets bob; logout clears it; nothing else changes it.
C10_IdentityContext ==
    /\ \A s \in Sessions : current_user(s) = NULL
    /\ [][ \A s \in Sessions :
             /\ (StepOf("login_local") /\ last'.sid = s)
                   => /\ session_state'[s].user =
                            IF verify_user(users, last'.args[1], last'.args[2]) = "True"
                            THEN last'.args[1]
                            ELSE session_state[s].user
                      /\ (/\ last'.args = <<Bob, Secret>>
                          /\ \E i \in DOMAIN users :
                                /\ users[i].username = Bob
                                /\ users[i].password_hash = <<BcryptIdent>> \o Secret)
                           => session_state'[s].user = Bob
                      /\ (\A i \in DOMAIN users : users[i].username # last'.args[1])
                           => session_state'[s].user = NULL
             /\ (StepOf("logout") /\ last'.sid = s) => session_state'[s].user = NULL
             /\ session_state'[s].user # session_state[s].user
                   => /\ last'.n # last.n
                      /\ last'.sid = s
                      /\ last'.op \in {"login_local", "logout"}
         ]_vars

\* C11: a handle_google_callback whose state parameter is absent, or is not
\* the oauth_state the session holds (also when the session holds none),
\* stops before the code exchange (fetch_token is not called, so it cannot
\* fail, and no profile is returned) and changes neither the session's
\* current username nor the users table.
C11_AntiForgery ==
    [][ \A s \in Sessions :
          (/\ StepOf("handle_google_callback")
           /\ last'.sid = s
           /\ (last'.args[2] = NULL \/ last'.args[2] # session_state[s].oauth_state))
             => /\ last'.exc # "OAuthError"
                /\ last'.ret # <<"info">>
                /\ session_state'[s].user = session_state[s].user
                /\ users' = users ]_vars

\* C11 happens: with the provider configured, a callback with a code and a
\* well-formed state that is not the one the session's login link carries
\* has been refused; a callback without a state is covered by the same run.
C11_Witness ==
    \E s \in Sessions :
       /\ google_conf
       /\ last.op = "handle_google_callback"
       /\ last.sid = s
       /\ Truthy(last.args[1])
       /\ last.args[2] \in Tokens
       /\ session_state[s].oauth_state \in Tokens \ {last.args[2]}
       /\ last.ret = <<"None">>
       /\ last.exc = NoExc

\* The callback's login: a step of handle_google_callback that returns the
\* provider's profile.  No run reaches one: the state the callback compares
\* is one character (query_value), the session's oauth_state is 32.  C16
\* (a token that was accepted once is refused the second time) is about what
\* follows such a step, and so has no case in any run of SpecSession.
CallbackAccepted ==
    last.op = "handle_google_callback" /\ last.ret = <<"info">>

CallbackNeverAccepts == ~CallbackAccepted

\* C10 happens: bob has registered, logged in and logged out again, in a
\* session whose login link carries a state.
C10_Witness ==
    \E s \in Sessions :
       /\ last.op = "logout"
       /\ last.sid = s
       /\ current_user(s) = NULL
       /\ session_state[s].oauth_state \in Tokens
       /\ Present(users, Bob)

----------------------------------------------------------------------------
(* Claims about concurrent calls (SpecRace) *)

\* Two calls of op that have both returned and were in progress together.
Raced(p, q, op) ==
    /\ p # q
    /\ calls[p].op = op /\ calls[q].op = op
    /\ calls[p].pc = "done" /\ calls[q].pc = "done"
    /\ calls[p].overlap /\ calls[q].overlap

RowsNamed(username) == {i \in DOMAIN users : users[i].username = username}

RowsWithId(id) == {c \in channels : c.id = id}

\* w's create_user succeeded, l's returned the conflict error, and the one
\* row of the username carries w's password.
UserWonBy(w, l) ==
    /\ calls[w].ret = <<OK>>
    /\ calls[l].ret = <<ERR_USER_EXISTS>>
    /\ Cardinality(RowsNamed(strip(calls[w].args[1]))) = 1
    /\ \A i \in RowsNamed(strip(calls[w].args[1])) :
          users[i].password_hash = bcrypt_hash(strip(calls[w].args[2]))

\* w's insert_channel succeeded, l's returned the conflict error, and the
\* one row of the id carries w's display name.
ChannelWonBy(w, l) ==
    /\ calls[w].ret = <<OK>>
    /\ calls[l].ret = <<ERR_CHANNEL_EXISTS>>
    /\ RowsWithId(normalize_channel_id(calls[w].args[1])) =
          {[id |-> normalize_channel_id(calls[w].args[1]),
            name |-> strip(calls[w].args[2])]}

SameUsername(p, q) == strip(calls[p].args[1]) = strip(calls[q].args[1])

\* The two raw ids normalize to one id, which no channel had before.
SameNewChannelId(p, q) ==
    /\ normalize_channel_id(calls[p].args[1]) = normalize_channel_id(calls[q].args[1])
    /\ normalize_channel_id(calls[p].args[1]) \notin ChannelIds(DEFAULT_CHANNELS)

C12_ChannelWitness ==
    /\ Raced(1, 2, "insert_channel")
    /\ calls[1].args[1] = cats_life
    /\ calls[2].args[1] = CatsLife
    /\ ChannelWonBy(2, 1)

\* C13: two concurrent upsert_google_user calls with the same arguments, a
\* google_sub and an email that no row has, both return the same username,
\* neither raises, and one row carries the google_sub afterwards.
C13_DuplicateDelivery ==
    \A p, q \in Procs :
       (Raced(p, q, "upsert_google_user") /\ calls[p].args = calls[q].args)
          => /\ calls[p].exc = NoExc /\ calls[q].exc = NoExc
             /\ calls[p].ret = calls[q].ret
             /\ Cardinality({i \in DOMAIN users :
                                users[i].google_sub = calls[p].args[1]}) = 1

====
